---------------------------- MODULE Spec2Model ----------------------------
(***************************************************************************)
(* Model of the threat-intelligence knowledge base, its ingestion paths    *)
(* (OTX pipeline, Feodo Tracker, MITRE ATT&CK) and the DiamondCorrelator.  *)
(*                                                                         *)
(* Confidence scores are kept in hundredths: 0.8 is 80, 0.95 is 95, 1.0 is *)
(* 100, so round(x, 2) of the source is an integer here.                   *)
(* SQL NULL / Python None is NULL (0) for identities and NoValue for       *)
(* strings.  Serial identities start at 1, as a Postgres SERIAL does.      *)
(***************************************************************************)
EXTENDS Integers, Sequences, FiniteSets, TLC

\* ------------------------------------------------------------------ bounds
\* Number of ingestion runs (of any source) a behaviour may start.
MaxRuns == 2
\* Longest list of observed technique ids handed to correlate_indicator.
MaxTtps == 4
\* Store faults (a rejected write, a failed query, a lost connection) injected
\* into one behaviour.
MaxFaults == 1

\* BATCH_SIZE of otx_ingest.py, scaled down from 5000 so that a feed of a
\* few records is written in several chunks.
BATCH_SIZE == 2

NULL == 0
NoValue == "None"

VARIABLES
    adversaries,            \* table adversaries: rows [adversary_id, name]
    infrastructure,         \* table infrastructure: rows [infrastructure_id, type, value, description]
    mitre_attack_mappings,  \* table mitre_attack_mappings: rows [tid, technique_name, description]
    events,                 \* table events: rows [event_id, adversary_id, infrastructure_id, mitre_tid, confidence_score, description]
    serial,                 \* the three SERIAL sequences: [adversaries, infrastructure, events]
    conn,                   \* DiamondCorrelator.conn: [closed, txn, recovered]
    result,                 \* what the last correlate_indicator call gave its caller
    call,                   \* record of the last correlate_indicator call (its inputs and the queries it ran)
    otx,                    \* locals of the running otx_ingest.pipeline()
    runs,                   \* ingestion runs started so far
    faults,                 \* store faults injected so far
    last,                   \* record of the last ingestion operation (its input, the injected store fault, the rows it wrote)
    runners                 \* ingestion jobs running side by side: each one's position in its identity resolution

store == <<adversaries, infrastructure, mitre_attack_mappings, events, serial>>
vars == <<adversaries, infrastructure, mitre_attack_mappings, events, serial,
          conn, result, call, otx, runs, faults, last, runners>>

\* ------------------------------------------------------------ value domains
Values == {"1.2.3.4", "9.9.9.9"}

\* ------------------------------------------------------------------ helpers
Range(s) == {s[i] : i \in DOMAIN s}

\* Python slice s[i : i + n] for a 0-based offset i.
Slice(s, i, n) ==
    LET hi == IF i + n < Len(s) THEN i + n ELSE Len(s)
    IN  IF i >= Len(s) THEN <<>> ELSE SubSeq(s, i + 1, hi)

\* Event rows in the order of their serial identity (the order a sequential
\* scan of an append-only table gives).
RECURSIVE OrderByEventId(_)
OrderByEventId(S) ==
    IF S = {} THEN <<>>
    ELSE LET m == CHOOSE e \in S : \A f \in S : e.event_id <= f.event_id
         IN  <<m>> \o OrderByEventId(S \ {m})

\* Mutant of Round2: the quotient is truncated to two decimals.
Round2_Truncate(matched, total) == (100 * matched) \div total

\* round(matched / total, 2) in hundredths.  No tie (x.5 hundredths) occurs
\* for total < 8, so half-up and Python's half-even agree on the model's range.
Round2(matched, total) == (200 * matched + total) \div (2 * total)


\* ------------------------------------------------------- DiamondCorrelator
\* Faults the store can inject into one correlate_indicator call: a query the
\* store rejects (the connection survives, its transaction is aborted), or a
\* connection lost while the query runs (psycopg2 marks the connection closed
\* and every later use of it, rollback() included, raises).
CorrelatorFaults ==
    {"none", "connect_fail",
     "lookup_error", "pivot_error", "heuristic_error",
     "lookup_lost", "pivot_lost", "heuristic_lost"}

NoRow == [infrastructure_id |-> NULL]

\* SELECT ... FROM infrastructure WHERE value = %s ; fetchone(): one of the
\* rows with that value (SQL fixes no order), or None.
LookupRows(value) ==
    LET rows == {r \in infrastructure : r.value = value}
    IN  IF rows = {} THEN {NoRow} ELSE rows

\* Mutant of DirectLinkRows: the pivot joins infrastructure and selects by
\* the value, so the events of every row with the found row's value come
\* back.
DirectLinkRows_ByValue(infrastructure_id) ==
    LET same == {r \in infrastructure :
                    \E f \in infrastructure :
                        f.infrastructure_id = infrastructure_id /\ f.value = r.value}
        joined == {e \in events :
                      /\ \E r \in same : e.infrastructure_id = r.infrastructure_id
                      /\ \E a \in adversaries : a.adversary_id = e.adversary_id}
        ordered == OrderByEventId(joined)
    IN  [i \in 1..Len(ordered) |->
            [adversary |-> (CHOOSE a \in adversaries :
                               a.adversary_id = ordered[i].adversary_id).name,
             confidence_score |-> ordered[i].confidence_score]]

\* Mutant of DirectLinkRows: SELECT DISTINCT, one row per adversary and score.
DirectLinkRows_Distinct(infrastructure_id) ==
    LET joined == {e \in events :
                      /\ e.infrastructure_id = infrastructure_id
                      /\ \E a \in adversaries : a.adversary_id = e.adversary_id}
        NameOf(e) == (CHOOSE a \in adversaries : a.adversary_id = e.adversary_id).name
        firsts == {e \in joined : \A f \in joined :
                      (NameOf(f) = NameOf(e) /\ f.confidence_score = e.confidence_score)
                          => e.event_id <= f.event_id}
        ordered == OrderByEventId(firsts)
    IN  [i \in 1..Len(ordered) |->
            [adversary |-> NameOf(ordered[i]),
             confidence_score |-> ordered[i].confidence_score]]

\* SELECT a.name, e.confidence_score FROM events e JOIN adversaries a
\* ON e.adversary_id = a.adversary_id WHERE e.infrastructure_id = %s
DirectLinkRows(infrastructure_id) ==
    LET joined == {e \in events :
                      /\ e.infrastructure_id = infrastructure_id
                      /\ \E a \in adversaries : a.adversary_id = e.adversary_id}
        ordered == OrderByEventId(joined)
    IN  [i \in 1..Len(ordered) |->
            [adversary |-> (CHOOSE a \in adversaries :
                               a.adversary_id = ordered[i].adversary_id).name,
             confidence_score |-> ordered[i].confidence_score]]

\* Mutant of KnownResult: the confidence is taken from the first link, as
\* the heuristic branch takes it from the first candidate.
KnownResult_FirstScore(matches) ==
    [status |-> "known",
     confidence |-> IF matches # <<>> THEN matches[1].confidence_score ELSE 0,
     matches |-> [i \in 1..Len(matches) |->
                     [type |-> "direct_link",
                      adversary |-> matches[i].adversary,
                      score |-> matches[i].confidence_score]]]

\* Mutant of KnownResult: a row with no attribution link is reported as
\* known with no confidence.
KnownResult_NoConfidenceWhenEmpty(matches) ==
    [status |-> "known",
     confidence |-> IF matches = <<>> THEN 0 ELSE 100,
     matches |-> [i \in 1..Len(matches) |->
                     [type |-> "direct_link",
                      adversary |-> matches[i].adversary,
                      score |-> matches[i].confidence_score]]]

\* The dict returned at lines 78-85.
KnownResult(matches) ==
    [status |-> "known",
     confidence |-> 100,
     matches |-> [i \in 1..Len(matches) |->
                     [type |-> "direct_link",
                      adversary |-> matches[i].adversary,
                      score |-> matches[i].confidence_score]]]

\* FROM events e JOIN adversaries a ON e.adversary_id = a.adversary_id
\* WHERE e.mitre_tid IN (...)
HeuristicJoin(mitre_ttps) ==
    {p \in events \X adversaries :
        /\ p[1].adversary_id = p[2].adversary_id
        /\ p[1].mitre_tid \in Range(mitre_ttps)}

\* SELECT a.name, count(e.mitre_tid) as match_count ... GROUP BY a.name
CandidateRows(mitre_ttps) ==
    LET joined == HeuristicJoin(mitre_ttps)
    IN  {[name |-> n, match_count |-> Cardinality({p \in joined : p[2].name = n})] :
            n \in {p[2].name : p \in joined}}

\* ORDER BY match_count DESC: every order of the rows that is non-increasing
\* in match_count (SQL leaves the order of equal counts open).
CandidateOrders(mitre_ttps) ==
    LET rows == CandidateRows(mitre_ttps)
        n == Cardinality(rows)
    IN  {s \in [1..n -> rows] :
            /\ \A i, j \in 1..n : i # j => s[i] # s[j]
            /\ \A i, j \in 1..n : i < j => s[i].match_count >= s[j].match_count}

\* The loop of lines 117-127.
HeuristicMatches(candidates, mitre_ttps) ==
    LET total_observed == Len(mitre_ttps)
    IN  [i \in 1..Len(candidates) |->
            [adversary |-> candidates[i].name,
             matched_ttps |-> candidates[i].match_count,
             score |-> Round2(candidates[i].match_count, total_observed)]]

\* Mutant of SortByScore: the sort without reverse=True, lowest score first.
RECURSIVE SortByScore_Ascending(_)
SortByScore_Ascending(ms) ==
    IF ms = <<>> THEN <<>>
    ELSE LET least == CHOOSE i \in 1..Len(ms) :
                         /\ \A j \in 1..Len(ms) : ms[i].score <= ms[j].score
                         /\ \A j \in 1..(i - 1) : ms[i].score < ms[j].score
             rest == [j \in 1..(Len(ms) - 1) |-> IF j < least THEN ms[j] ELSE ms[j + 1]]
         IN  <<ms[least]>> \o SortByScore_Ascending(rest)

\* list.sort(key=score, reverse=True): a stable sort, highest score first.
RECURSIVE SortByScore(_)
SortByScore(ms) ==
    IF ms = <<>> THEN <<>>
    ELSE LET best == CHOOSE i \in 1..Len(ms) :
                        /\ \A j \in 1..Len(ms) : ms[j].score <= ms[i].score
                        /\ \A j \in 1..(i - 1) : ms[j].score < ms[i].score
             rest == [j \in 1..(Len(ms) - 1) |-> IF j < best THEN ms[j] ELSE ms[j + 1]]
         IN  <<ms[best]>> \o SortByScore(rest)

\* Mutant of UnknownResult: the default verdict carries a confidence of 1.0.
UnknownResult_Confident == [status |-> "unknown", confidence |-> 100]

\* The dict returned at line 145 (it has no "matches" key).
UnknownResult == [status |-> "unknown", confidence |-> 0]

\* Mutant of HeuristicResult: an empty candidate list gives the "unknown"
\* dict instead.
HeuristicResult_UnknownWhenEmpty(heuristic_matches) ==
    IF heuristic_matches = <<>> THEN [status |-> "unknown", confidence |-> 0]
    ELSE [status |-> "heuristic_match",
          confidence |-> heuristic_matches[1].score,
          matches |-> heuristic_matches]

\* The dict returned at lines 134-138.
HeuristicResult(heuristic_matches) ==
    [status |-> "heuristic_match",
     confidence |-> IF heuristic_matches # <<>> THEN heuristic_matches[1].score ELSE 0,
     matches |-> heuristic_matches]

\* The dict returned at line 90.
ErrorResult == [error |-> "QueryError"]

\* The call ended by an exception that left correlate_indicator.
Raised(e) == [exception |-> e]

NoCall == [none |-> TRUE]

\* _connect(): a fresh connection.  txn is "ok" (no transaction, or one in
\* progress) or "aborted" (a statement failed and was not rolled back yet:
\* the server rejects every further statement).  recovered records that a
\* rollback has ended a failed statement on this connection.
Connect == [closed |-> FALSE, txn |-> "ok", recovered |-> FALSE]

\* What the caller sees and what is left behind when the connection is lost
\* under query q: execute() raises, the except block (if any) calls
\* self.conn.rollback() on the now closed connection, which raises again, and
\* that exception leaves correlate_indicator.  Nothing is re-executed.
ConnectionLost(log, q) ==
    [result |-> Raised("InterfaceError"),
     conn |-> [closed |-> TRUE, txn |-> "ok", recovered |-> FALSE],
     call |-> [log EXCEPT !.queries = Append(@, q), !.failed = q, !.lost = TRUE]]

\* Mutant of Stage1Failed: the except block returns the error dict without
\* the rollback, so the failed transaction stays open.
Stage1Failed_NoRollback(c, log, q) ==
    [result |-> ErrorResult,
     conn |-> [c EXCEPT !.txn = "aborted", !.recovered = TRUE],
     call |-> [log EXCEPT !.queries = Append(@, q), !.failed = q]]

\* except block of Stage 1, lines 86-90: rollback, close the cursor, return
\* the error dict.
Stage1Failed(c, log, q) ==
    [result |-> ErrorResult,
     conn |-> [c EXCEPT !.txn = "ok", !.recovered = TRUE],
     call |-> [log EXCEPT !.queries = Append(@, q), !.failed = q, !.rolled_back = TRUE]]

\* except block of Stage 2, lines 139-141, and the statements it falls
\* through to, lines 143-145: rollback, then the "unknown" dict.
Stage2Failed(c, log, q) ==
    [result |-> UnknownResult,
     conn |-> [c EXCEPT !.txn = "ok", !.recovered = TRUE],
     call |-> [log EXCEPT !.queries = Append(@, q), !.failed = q, !.rolled_back = TRUE]]

\* Mutant of CorrelateBody: "if row and matches" at line 64, so a row with no
\* linking event falls through to Stage 2.
CorrelateBody_FallsThrough(c, log, mitre_ttps, fault, row, candidates) ==
    IF fault = "lookup_lost" THEN ConnectionLost(log, "lookup")
    ELSE IF fault = "lookup_error" \/ c.txn = "aborted" THEN Stage1Failed(c, log, "lookup")
    ELSE LET log1 == [log EXCEPT !.queries = Append(@, "lookup"),
                                 !.row = row.infrastructure_id]
             log2 == [log1 EXCEPT !.queries = Append(@, "pivot")]
             linked == row # NoRow /\ DirectLinkRows(row.infrastructure_id) # <<>>
             after == IF row # NoRow THEN log2 ELSE log1
         IN  IF row # NoRow /\ fault = "pivot_lost" THEN ConnectionLost(log1, "pivot")
             ELSE IF row # NoRow /\ fault = "pivot_error" THEN Stage1Failed(c, log1, "pivot")
             ELSE IF linked
             THEN [result |-> KnownResult(DirectLinkRows(row.infrastructure_id)),
                   conn |-> c, call |-> log2]
             ELSE IF mitre_ttps # <<>>
             THEN IF fault = "heuristic_lost" THEN ConnectionLost(after, "heuristic")
                  ELSE IF fault = "heuristic_error" THEN Stage2Failed(c, after, "heuristic")
                  ELSE [result |-> HeuristicResult(
                                      SortByScore(HeuristicMatches(candidates, mitre_ttps))),
                        conn |-> c,
                        call |-> [after EXCEPT !.queries = Append(@, "heuristic")]]
             ELSE [result |-> UnknownResult, conn |-> c, call |-> after]

\* The body of correlate_indicator from line 58 on, on connection c, for the
\* row fetchone() gave and the candidate rows fetchall() gave.
CorrelateBody(c, log, mitre_ttps, fault, row, candidates) ==
    IF fault = "lookup_lost" THEN ConnectionLost(log, "lookup")
    ELSE IF fault = "lookup_error" \/ c.txn = "aborted" THEN Stage1Failed(c, log, "lookup")
    ELSE LET log1 == [log EXCEPT !.queries = Append(@, "lookup"),
                                 !.row = row.infrastructure_id]
             c1 == c
         IN  IF row # NoRow
             THEN IF fault = "pivot_lost" THEN ConnectionLost(log1, "pivot")
                  ELSE IF fault = "pivot_error" THEN Stage1Failed(c1, log1, "pivot")
                  ELSE [result |-> KnownResult(DirectLinkRows(row.infrastructure_id)),
                        conn |-> c1,
                        call |-> [log1 EXCEPT !.queries = Append(@, "pivot")]]
             ELSE IF mitre_ttps # <<>>
             THEN IF fault = "heuristic_lost" THEN ConnectionLost(log1, "heuristic")
                  ELSE IF fault = "heuristic_error" THEN Stage2Failed(c1, log1, "heuristic")
                  ELSE [result |-> HeuristicResult(
                                      SortByScore(HeuristicMatches(candidates, mitre_ttps))),
                        conn |-> c1,
                        call |-> [log1 EXCEPT !.queries = Append(@, "heuristic")]]
             ELSE [result |-> UnknownResult, conn |-> c1, call |-> log1]

\* Lists of observed technique ids a caller may pass.  The code reads the
\* list only through len() and through IN (...), so one list stands for its
\* reorderings; the empty list stands for None and [] alike (both are falsy
\* at line 95).
ObservedLists ==
    {<<>>,
     <<"T1003">>,
     <<"T1003", "T1059">>,
     <<"T1003", "T1059", "T1071">>,
     <<"T1003", "T1059", "T1071", "T1071">>,
     <<"T1003", "T1059", "T1059", "T1071", "T1071">>}

TtpLists == {s \in ObservedLists : Len(s) <= MaxTtps}

\* Whether the call reaches the statement the fault is injected into.
FaultApplies(fault, row, mitre_ttps) ==
    CASE fault = "none" -> TRUE
      [] fault = "connect_fail" -> conn.closed
      [] fault \in {"lookup_error", "lookup_lost"} -> TRUE
      [] fault \in {"pivot_error", "pivot_lost"} -> row # NoRow
      [] fault \in {"heuristic_error", "heuristic_lost"} -> row = NoRow /\ mitre_ttps # <<>>

\* Mutant of correlate_indicator: a value with no row is remembered as a new
\* indicator row.
correlate_indicator_Remembers(value, mitre_ttps, fault) ==
    /\ result = NoCall
    /\ otx.pc \in {"idle", "done"}
    /\ fault # "none" => faults < MaxFaults
    /\ faults' = IF fault = "none" THEN faults ELSE faults + 1
    /\ LET log == [value |-> value, mitre_ttps |-> mitre_ttps,
                   reconnected |-> conn.closed, queries |-> <<>>,
                   failed |-> "none", lost |-> FALSE, rolled_back |-> FALSE,
                   row |-> NULL]
       IN  \E row \in LookupRows(value) :
           \E candidates \in CandidateOrders(mitre_ttps) :
             /\ FaultApplies(fault, row, mitre_ttps)
             /\ IF fault = "connect_fail"
                THEN /\ result' = Raised("OperationalError")
                     /\ conn' = conn
                     /\ call' = [log EXCEPT !.failed = "connect"]
                ELSE LET c == IF conn.closed THEN Connect ELSE conn
                         out == CorrelateBody(c, log, mitre_ttps, fault, row, candidates)
                     IN  /\ result' = out.result
                         /\ conn' = out.conn
                         /\ call' = out.call
             /\ infrastructure' =
                   IF row = NoRow /\ fault = "none"
                   THEN infrastructure \cup
                        {[infrastructure_id |-> serial.infrastructure, type |-> "IPv4",
                          value |-> value, description |-> "queried"]}
                   ELSE infrastructure
             /\ serial' = [serial EXCEPT !.infrastructure =
                              IF row = NoRow /\ fault = "none" THEN @ + 1 ELSE @]
    /\ UNCHANGED <<adversaries, mitre_attack_mappings, events, otx, runs, last, runners>>

\* DiamondCorrelator.correlate_indicator(value, mitre_ttps): the whole call,
\* from the connection check at line 54 to the return, made between the
\* steps of ingestion runs.  result holds what the caller got until
\* forget_result.
correlate_indicator(value, mitre_ttps, fault) ==
    /\ result = NoCall
    /\ otx.pc \in {"idle", "done"}
    /\ fault # "none" => faults < MaxFaults
    /\ faults' = IF fault = "none" THEN faults ELSE faults + 1
    /\ LET log == [value |-> value, mitre_ttps |-> mitre_ttps,
                   reconnected |-> conn.closed, queries |-> <<>>,
                   failed |-> "none", lost |-> FALSE, rolled_back |-> FALSE,
                   row |-> NULL]
       IN  \E row \in LookupRows(value) :
           \E candidates \in CandidateOrders(mitre_ttps) :
             /\ FaultApplies(fault, row, mitre_ttps)
             /\ IF fault = "connect_fail"
                THEN \* line 56: _connect() logs and re-raises
                     /\ result' = Raised("OperationalError")
                     /\ conn' = conn
                     /\ call' = [log EXCEPT !.failed = "connect"]
                ELSE LET c == IF conn.closed THEN Connect ELSE conn
                         out == CorrelateBody(c, log, mitre_ttps, fault, row, candidates)
                     IN  /\ result' = out.result
                         /\ conn' = out.conn
                         /\ call' = out.call
    /\ UNCHANGED <<store, otx, runs, last, runners>>

\* The caller is done with the returned dict.
forget_result ==
    /\ result # NoCall
    /\ result' = NoCall
    /\ call' = NoCall
    /\ UNCHANGED <<store, conn, otx, runs, faults, last, runners>>

\* DiamondCorrelator.close()
close ==
    /\ result = NoCall
    /\ ~conn.closed
    /\ conn' = [closed |-> TRUE, txn |-> "ok", recovered |-> FALSE]
    /\ UNCHANGED <<store, result, call, otx, runs, faults, last, runners>>

\* ------------------------------------------------------------- the store
\* The ascending sequence of a finite set of integers.
RECURSIVE SortedSeq(_)
SortedSeq(S) ==
    IF S = {} THEN <<>>
    ELSE LET m == CHOOSE x \in S : \A y \in S : x <= y
         IN  <<m>> \o SortedSeq(S \ {m})

RECURSIVE Concat(_)
Concat(ss) == IF ss = <<>> THEN <<>> ELSE Head(ss) \o Concat(Tail(ss))

\* Store faults injected into one ingestion write: "none", the INSERT (or
\* its commit) is rejected, or the SELECT that re-fetches identities fails.
WriteFaults == {"none", "insert", "refetch"}

\* adversaries.name carries no unique constraint (mitre_ingest.py line 119:
\* "requires unique constraint on name which we lack"), so ON CONFLICT DO
\* NOTHING has no constraint to conflict on.
AdversaryNameUnique == FALSE

\* Mutant of ForeignKeysHold: events.adversary_id references nothing.
ForeignKeysHold_NoAdversaryKey(rows, advs, infra, mappings) ==
    \A i \in DOMAIN rows :
        /\ rows[i].infrastructure_id # NULL =>
              \E r \in infra : r.infrastructure_id = rows[i].infrastructure_id
        /\ rows[i].mitre_tid # NoValue =>
              \E m \in mappings : m.tid = rows[i].mitre_tid

\* The events table's foreign keys: an event row is accepted only when the
\* rows it references exist (NULL references nothing).
ForeignKeysHold(rows, advs, infra, mappings) ==
    \A i \in DOMAIN rows :
        /\ rows[i].adversary_id # NULL =>
              \E a \in advs : a.adversary_id = rows[i].adversary_id
        /\ rows[i].infrastructure_id # NULL =>
              \E r \in infra : r.infrastructure_id = rows[i].infrastructure_id
        /\ rows[i].mitre_tid # NoValue =>
              \E m \in mappings : m.tid = rows[i].mitre_tid

\* INSERT INTO adversaries (name) VALUES ...: one new row per name, with the
\* next serial identities in the order of the list.
InsertedAdversaries(names, first_id) ==
    {[adversary_id |-> first_id + i - 1, name |-> names[i]] : i \in DOMAIN names}

\* INSERT INTO infrastructure (type, value, description) VALUES ...
InsertedInfrastructure(items, first_id) ==
    {[infrastructure_id |-> first_id + i - 1, type |-> items[i].type,
      value |-> items[i].value, description |-> items[i].description] : i \in DOMAIN items}

\* INSERT INTO events (...) VALUES ...
InsertedEvents(rows, first_id) ==
    {[event_id |-> first_id + i - 1,
      adversary_id |-> rows[i].adversary_id,
      infrastructure_id |-> rows[i].infrastructure_id,
      mitre_tid |-> rows[i].mitre_tid,
      confidence_score |-> rows[i].confidence_score,
      description |-> rows[i].description] : i \in DOMAIN rows}

\* for r in cur.fetchall(): mapping[r[0]] = r[1] over SELECT value,
\* infrastructure_id ... WHERE value IN vals: a dict from each value found
\* to the identity of the last row fetched with it.  Rows come back in the
\* order of their identity (a scan of a table that is only appended to), so
\* that is the latest row ("or we take latest", otx_ingest.py line 145).
\* A NULL value matches nothing under IN.
InfraIdMap(infra, vals) ==
    LET found == {v \in vals : v # NoValue /\ \E r \in infra : r.value = v}
        Latest(v) == CHOOSE r \in infra :
                        /\ r.value = v
                        /\ \A q \in infra : q.value = v =>
                              q.infrastructure_id <= r.infrastructure_id
    IN  [v \in found |-> Latest(v).infrastructure_id]

\* The same for SELECT name, adversary_id FROM adversaries WHERE name IN ...
AdversaryIdMap(advs, names) ==
    LET found == {n \in names : \E a \in advs : a.name = n}
        Latest(n) == CHOOSE a \in advs :
                        /\ a.name = n
                        /\ \A q \in advs : q.name = n => q.adversary_id <= a.adversary_id
    IN  [n \in found |-> Latest(n).adversary_id]

\* Mutant of Dedupe: the first item with each value is kept.
Dedupe_FirstWins(items) ==
    LET firsts == {i \in DOMAIN items : \A j \in 1..(i - 1) : items[j].value # items[i].value}
        order == SortedSeq(firsts)
    IN  [k \in 1..Len(order) |-> items[order[k]]]

\* {item[1]: item for item in items}.values(): one item per value, in the
\* order the values first occur, each the last item with that value.
Dedupe(items) ==
    LET firsts == {i \in DOMAIN items : \A j \in 1..(i - 1) : items[j].value # items[i].value}
        order == SortedSeq(firsts)
        LastWith(v) == CHOOSE i \in DOMAIN items :
                          /\ items[i].value = v
                          /\ \A j \in DOMAIN items : items[j].value = v => j <= i
    IN  [k \in 1..Len(order) |-> items[LastWith(items[order[k]].value)]]

\* dict.update / dict.get on dicts kept as functions.
Update(d, e) == [k \in DOMAIN d \cup DOMAIN e |-> IF k \in DOMAIN e THEN e[k] ELSE d[k]]
Get(d, k) == IF k \in DOMAIN d THEN d[k] ELSE NULL
EmptyDict == [k \in {} |-> NULL]

\* ------------------------------------------------------ otx_ingest.pipeline
\* Pulses fetch_pulses_async() may return.  "" is an empty description.
OtxFeeds ==
    {<< [author_name |-> "APT-X", name |-> "pulse-1",
         indicators |-> << [type |-> "IPv4", indicator |-> "1.2.3.4", description |-> "c2"],
                           [type |-> "IPv4", indicator |-> "1.2.3.4", description |-> ""],
                           [type |-> "FileHash-SHA256", indicator |-> "9.9.9.9", description |-> "c2"],
                           [type |-> "hostname", indicator |-> "1.2.3.4", description |-> "c2"] >>],
        [author_name |-> "APT-Y", name |-> "pulse-2",
         indicators |-> << [type |-> "IPv4", indicator |-> "1.2.3.4", description |-> ""],
                           [type |-> "IPv4", indicator |-> "9.9.9.9", description |-> "c2"] >>] >>}

OtxTypes == {"IPv4", "IPv6", "domain", "hostname", "URL", "url"}

\* Lines 203-212: the items of one pulse that pass the type filter.
PulseInfra(pulse) ==
    LET Supported(ind) == ind.type \in OtxTypes
        kept == SelectSeq(pulse.indicators, Supported)
    IN  [k \in 1..Len(kept) |->
            [type |-> kept[k].type,
             value |-> kept[k].indicator,
             description |-> IF kept[k].description # "" THEN kept[k].description
                             ELSE pulse.name]]

\* Lines 199-218: pulse_map, whose "infra" lists concatenate to infra_buffer.
PulseMap(pulses) ==
    [k \in 1..Len(pulses) |->
        [author |-> pulses[k].author_name, name |-> pulses[k].name,
         infra |-> PulseInfra(pulses[k])]]

InfraBuffer(pulse_map) == Concat([k \in 1..Len(pulse_map) |-> pulse_map[k].infra])

\* list(set(...)): the names as a list.  The order decides only which new
\* row gets which serial identity; one order is taken.
ListOfSet(S) ==
    CHOOSE q \in [1..Cardinality(S) -> S] : \A i, j \in DOMAIN q : i # j => q[i] # q[j]

\* get_or_create_adversaries, lines 86-92: the names with no row yet.
NewNames(advs, unique_names) ==
    {n \in unique_names : ~\E a \in advs : a.name = n}

\* get_or_create_adversaries, lines 85-103: the adversaries table after the
\* first try block, for the order new_names has.
CreateAdversaries(advs, first_id, new_names, fault) ==
    IF fault = "insert" THEN advs
    ELSE advs \cup InsertedAdversaries(new_names, first_id)

\* Mutant of PulseEventRows: no "if infra_id:" test, a row for every item.
PulseEventRows_Unfiltered(p, adv_id_map, infra_id_map) ==
    LET adv_id == Get(adv_id_map, p.author)
    IN  IF adv_id = NULL THEN <<>>
        ELSE [k \in 1..Len(p.infra) |->
                [adversary_id |-> adv_id,
                 infrastructure_id |-> Get(infra_id_map, p.infra[k].value),
                 mitre_tid |-> NoValue,
                 confidence_score |-> 80,
                 description |-> "Indicator from Pulse"]]

\* Lines 240-258: the event rows of one pulse.
PulseEventRows(p, adv_id_map, infra_id_map) ==
    LET adv_id == Get(adv_id_map, p.author)
        Resolved(item) == Get(infra_id_map, item.value) # NULL
        kept == SelectSeq(p.infra, Resolved)
    IN  IF adv_id = NULL THEN <<>>
        ELSE [k \in 1..Len(kept) |->
                [adversary_id |-> adv_id,
                 infrastructure_id |-> Get(infra_id_map, kept[k].value),
                 mitre_tid |-> NoValue,
                 confidence_score |-> 80,
                 description |-> "Indicator from Pulse"]]

BuildEventRows(pulse_map, adv_id_map, infra_id_map) ==
    Concat([k \in 1..Len(pulse_map) |-> PulseEventRows(pulse_map[k], adv_id_map, infra_id_map)])

\* Mutant of bulk_insert_infrastructure: the new row of a value takes the
\* place of the rows that had it.
bulk_insert_infrastructure_Replaces(infra, first_id, items, fault) ==
    LET fresh == InsertedInfrastructure(Dedupe(items), first_id)
    IN  IF fault = "insert" THEN infra
        ELSE {r \in infra : ~\E f \in fresh : f.value = r.value} \cup fresh

\* Mutant of bulk_insert_infrastructure: a value that has a row already is
\* looked up and not inserted again.
bulk_insert_infrastructure_SkipsExisting(infra, first_id, items, fault) ==
    LET IsNew(item) == ~\E r \in infra : r.value = item.value
    IN  IF fault = "insert" THEN infra
        ELSE infra \cup InsertedInfrastructure(SelectSeq(Dedupe(items), IsNew), first_id)

\* Mutant of bulk_insert_infrastructure: the rows of a rejected chunk stay
\* (no rollback).
bulk_insert_infrastructure_NoRollback(infra, first_id, items, fault) ==
    infra \cup InsertedInfrastructure(Dedupe(items), first_id)

\* bulk_insert_infrastructure, lines 138-143 and 151-153: the table after
\* one chunk.  The commit precedes the re-fetch, so only a rejected INSERT
\* leaves the chunk out.
bulk_insert_infrastructure(infra, first_id, items, fault) ==
    IF fault = "insert" THEN infra
    ELSE infra \cup InsertedInfrastructure(Dedupe(items), first_id)

\* bulk_save_events, lines 167-181: the table after one chunk.
bulk_save_events(evs, first_id, event_rows, fault) ==
    IF fault = "insert" \/ ~ForeignKeysHold(event_rows, adversaries, infrastructure,
                                            mitre_attack_mappings)
    THEN evs
    ELSE evs \cup InsertedEvents(event_rows, first_id)

IdleOtx ==
    [pc |-> "idle", pulse_map |-> <<>>, adv_id_map |-> EmptyDict, infra_buffer |-> <<>>,
     infra_id_map |-> EmptyDict, event_rows |-> <<>>, i |-> 0,
     infra_faults |-> <<>>, event_faults |-> <<>>, exception |-> FALSE,
     before |-> [infrastructure |-> {}, events |-> {}]]

\* Lines 236-264 reached: build event_rows and enter the event loop, or end
\* the run (conn.close()) when there is nothing to write.
AfterInfraLoop(o) ==
    LET rows == BuildEventRows(o.pulse_map, o.adv_id_map, o.infra_id_map)
    IN  [o EXCEPT !.event_rows = rows, !.i = 0,
                  !.pc = IF rows = <<>> THEN "done" ELSE "events"]

\* pipeline(), lines 183-222: read the pulses, fill the buffers, resolve the
\* adversaries.  A failing re-fetch (lines 106-112, try/finally with no
\* except) raises out of get_or_create_adversaries and ends the run.
pipeline_resolve(pulses, fault) ==
    /\ result = NoCall
    /\ otx.pc \in {"idle", "done"}
    /\ runs < MaxRuns
    /\ runs' = runs + 1
    /\ fault # "none" => faults < MaxFaults
    /\ faults' = IF fault = "none" THEN faults ELSE faults + 1
    /\ LET pulse_map == PulseMap(pulses)
           all_adversaries == {pulses[k].author_name : k \in DOMAIN pulses}
           new_names == NewNames(adversaries, all_adversaries)
           inserted == IF fault = "insert" THEN 0 ELSE Cardinality(new_names)
           o == [IdleOtx EXCEPT !.pulse_map = pulse_map,
                                !.infra_buffer = InfraBuffer(pulse_map),
                                !.before = [infrastructure |-> infrastructure,
                                            events |-> events]]
       IN  /\ adversaries' = CreateAdversaries(adversaries, serial.adversaries,
                                               ListOfSet(new_names), fault)
           /\ serial' = [serial EXCEPT !.adversaries = @ + inserted]
           /\ last' = [op |-> "get_or_create_adversaries", fault |-> fault,
                       names |-> all_adversaries,
                       existing |-> new_names = {},
                       inserted |-> inserted,
                       input |-> ListOfSet(all_adversaries),
                       written |-> adversaries' \ adversaries,
                       count |-> inserted, at |-> 0]
           /\ IF fault = "refetch"
              THEN otx' = [o EXCEPT !.pc = "done", !.exception = TRUE]
              ELSE LET o1 == [o EXCEPT !.adv_id_map =
                                         AdversaryIdMap(adversaries', all_adversaries)]
                   IN  otx' = IF o1.infra_buffer = <<>> THEN AfterInfraLoop(o1)
                              ELSE [o1 EXCEPT !.pc = "infra"]
    /\ UNCHANGED <<infrastructure, mitre_attack_mappings, events, conn, result, call, runners>>

\* pipeline(), lines 230-234: one turn of the indicator loop.
pipeline_infra_chunk(fault) ==
    /\ result = NoCall
    /\ otx.pc = "infra"
    /\ fault # "none" => faults < MaxFaults
    /\ faults' = IF fault = "none" THEN faults ELSE faults + 1
    /\ LET batch == Slice(otx.infra_buffer, otx.i, BATCH_SIZE)
           vals == {batch[k].value : k \in DOMAIN batch}
           inserted == IF fault = "insert" THEN 0 ELSE Len(Dedupe(batch))
       IN  /\ infrastructure' = bulk_insert_infrastructure(infrastructure,
                                     serial.infrastructure, batch, fault)
           /\ serial' = [serial EXCEPT !.infrastructure = @ + inserted]
           /\ last' = [op |-> "bulk_insert_infrastructure", fault |-> fault,
                       names |-> vals,
                       existing |-> \A v \in vals : \E r \in infrastructure : r.value = v,
                       inserted |-> inserted,
                       input |-> batch,
                       written |-> infrastructure' \ infrastructure,
                       count |-> inserted, at |-> 0]
           /\ LET batch_map == IF fault = "none" THEN InfraIdMap(infrastructure', vals)
                                ELSE EmptyDict
                   o == [otx EXCEPT !.infra_id_map = Update(@, batch_map),
                                    !.i = @ + BATCH_SIZE,
                                    !.infra_faults = Append(@, fault)]
               IN  otx' = IF o.i >= Len(o.infra_buffer) THEN AfterInfraLoop(o) ELSE o
    /\ UNCHANGED <<adversaries, mitre_attack_mappings, events, conn, result, call, runs, runners>>

\* pipeline(), lines 261-266: one turn of the event loop.
pipeline_events_chunk(fault) ==
    /\ result = NoCall
    /\ otx.pc = "events"
    /\ fault \in {"none", "insert"}
    /\ fault # "none" => faults < MaxFaults
    /\ faults' = IF fault = "none" THEN faults ELSE faults + 1
    /\ LET batch == Slice(otx.event_rows, otx.i, BATCH_SIZE)
       IN  /\ events' = bulk_save_events(events, serial.events, batch, fault)
           /\ serial' = [serial EXCEPT !.events = @ + Cardinality(events' \ events)]
           /\ last' = [op |-> "bulk_save_events", fault |-> fault,
                       names |-> {}, existing |-> FALSE,
                       inserted |-> Cardinality(events' \ events),
                       input |-> batch,
                       written |-> events' \ events,
                       count |-> Len(batch), at |-> 0]
           /\ otx' = [otx EXCEPT !.i = @ + BATCH_SIZE,
                                 !.event_faults = Append(@, fault),
                                 !.pc = IF otx.i + BATCH_SIZE >= Len(otx.event_rows)
                                        THEN "done" ELSE "events"]
    /\ UNCHANGED <<adversaries, infrastructure, mitre_attack_mappings, conn, result, call, runs, runners>>

\* ------------------------------------------- feed_ingest.ingest_feodotracker
\* Blocklists the Feodo Tracker download may hold.  NoValue is a record
\* without an ip_address.
FeodoFeeds ==
    {<< [ip_address |-> "1.2.3.4", malware |-> "Emotet"],
        [ip_address |-> NoValue, malware |-> "Emotet"],
        [ip_address |-> "9.9.9.9", malware |-> "Emotet"],
        [ip_address |-> "1.2.3.4", malware |-> "QakBot"] >>}

\* f"Feodo Tracker: {malware} C2"
FeodoDescription(malware) ==
    IF malware = "Emotet" THEN "Feodo Tracker: Emotet C2" ELSE "Feodo Tracker: QakBot C2"

\* Lines 101-113: the records with an ip_address, as infrastructure items.
FeodoInfraItems(data) ==
    LET HasIp(item) == item.ip_address # NoValue
        kept == SelectSeq(data, HasIp)
    IN  [k \in 1..Len(kept) |->
            [type |-> "IPv4", value |-> kept[k].ip_address,
             description |-> FeodoDescription(kept[k].malware)]]

\* Mutant of FeodoEventRows: the rows carry the score of the OTX pipeline.
FeodoEventRows_OtxScore(infra_items, adv_id, infra_map) ==
    LET Mapped(item) == item.value \in DOMAIN infra_map
        kept == SelectSeq(infra_items, Mapped)
    IN  [k \in 1..Len(kept) |->
            [adversary_id |-> adv_id,
             infrastructure_id |-> infra_map[kept[k].value],
             mitre_tid |-> NoValue,
             confidence_score |-> 80,
             description |-> kept[k].description]]

\* Lines 164-173: one event row per parsed item whose value is in infra_map.
FeodoEventRows(infra_items, adv_id, infra_map) ==
    LET Mapped(item) == item.value \in DOMAIN infra_map
        kept == SelectSeq(infra_items, Mapped)
    IN  [k \in 1..Len(kept) |->
            [adversary_id |-> adv_id,
             infrastructure_id |-> infra_map[kept[k].value],
             mitre_tid |-> NoValue,
             confidence_score |-> 95,
             description |-> kept[k].description]]

\* ingest_feodotracker(conn), lines 86-191, for a feed that was fetched.
\* insert_fault, fetch_fault and event_fault say whether the store rejects
\* the indicator INSERT, the identity SELECT and the event INSERT.
ingest_feodotracker(data, insert_fault, fetch_fault, event_fault) ==
    /\ result = NoCall
    /\ otx.pc \in {"idle", "done"}
    /\ runs < MaxRuns
    /\ runs' = runs + 1
    /\ LET n == Cardinality({f \in {<<1, insert_fault>>, <<2, fetch_fault>>,
                                       <<3, event_fault>>} : f[2]})
       IN  /\ faults + n <= MaxFaults
           /\ faults' = faults + n
    /\ otx' = IdleOtx
    /\ LET infra_items == FeodoInfraItems(data)
           known == {a \in adversaries : a.name = "Feodo Tracker"}
           \* lines 120-128: SELECT, else INSERT ... RETURNING (not committed)
           created == IF known = {}
                      THEN {[adversary_id |-> serial.adversaries, name |-> "Feodo Tracker"]}
                      ELSE {}
           unique_items == Dedupe(infra_items)
           \* lines 134-147: execute_values runs no statement for an empty list
           rejected == insert_fault /\ unique_items # <<>>
           advs1 == IF rejected THEN adversaries ELSE adversaries \cup created
           infra1 == IF rejected THEN infrastructure
                     ELSE infrastructure \cup
                          InsertedInfrastructure(unique_items, serial.infrastructure)
           vals == {unique_items[k].value : k \in DOMAIN unique_items}
           \* fetchone(): the first row in the order of identity
           adv == IF known = {} THEN CHOOSE a \in created : TRUE
                  ELSE CHOOSE a \in known :
                          \A q \in known : a.adversary_id <= q.adversary_id
           infra_map == IF vals = {} \/ fetch_fault THEN EmptyDict
                        ELSE InfraIdMap(infra1, vals)
       IN      LET event_rows == FeodoEventRows(infra_items, adv.adversary_id, infra_map)
                   saved == /\ event_rows # <<>>
                            /\ ~event_fault
                            /\ ForeignKeysHold(event_rows, advs1, infra1,
                                               mitre_attack_mappings)
               IN  /\ insert_fault => unique_items # <<>>
                   /\ fetch_fault => vals # {}
                   /\ event_fault => event_rows # <<>>
                   /\ adversaries' = advs1
                   /\ infrastructure' = infra1
                   /\ events' = IF saved
                                THEN events \cup InsertedEvents(event_rows, serial.events)
                                ELSE events
                   /\ serial' = [adversaries |-> serial.adversaries + Cardinality(created),
                                 infrastructure |-> serial.infrastructure +
                                     (IF rejected THEN 0 ELSE Len(unique_items)),
                                 events |-> serial.events +
                                     (IF saved THEN Len(event_rows) ELSE 0)]
                   /\ last' = [op |-> "ingest_feodotracker",
                               fault |-> IF insert_fault THEN "insert"
                                         ELSE IF fetch_fault THEN "refetch"
                                         ELSE IF event_fault THEN "events" ELSE "none",
                               names |-> {"Feodo Tracker"},
                               existing |-> known # {},
                               inserted |-> Cardinality(created),
                               input |-> infra_items,
                               written |-> infra1 \ infrastructure,
                               count |-> IF saved THEN Len(event_rows) ELSE 0,
                               at |-> 0]
    /\ UNCHANGED <<mitre_attack_mappings, conn, result, call, runners>>

\* ---------------------------------------------- mitre_ingest.ingest_mitre_data
\* Knowledge bases the STIX download may hold: the techniques (mitre_id is
\* NoValue for one without a mitre-attack reference) and the groups with the
\* techniques each uses.
MitreKBs ==
    {[techniques |-> << [mitre_id |-> "T1003", name |-> "OS Credential Dumping",
                         description |-> "v1"],
                        [mitre_id |-> NoValue, name |-> "Unreferenced", description |-> ""],
                        [mitre_id |-> "T1059", name |-> "Command and Scripting Interpreter",
                         description |-> "v1"] >>,
      groups |-> << [name |-> "APT-Y", techniques_used |-> <<"T1003", "T1059", "T1071">>] >>],
     [techniques |-> << [mitre_id |-> "T1003", name |-> "Credential Dumping",
                         description |-> "v2"] >>,
      groups |-> << [name |-> "APT-X", techniques_used |-> <<"T1003">>],
                    [name |-> "APT-Y", techniques_used |-> <<"T1003", "T1003">>] >>]}

\* Mutant of UpsertTechnique: a plain INSERT into a table with no key on tid.
UpsertTechnique_Appends(mappings, t) ==
    mappings \cup
    {[tid |-> t.mitre_id, technique_name |-> t.name, description |-> t.description]}

\* INSERT ... ON CONFLICT (tid) DO UPDATE SET technique_name = EXCLUDED...,
\* description = EXCLUDED.description
UpsertTechnique(mappings, t) ==
    {m \in mappings : m.tid # t.mitre_id} \cup
    {[tid |-> t.mitre_id, technique_name |-> t.name, description |-> t.description]}

\* Lines 65-94: the technique loop from its k-th turn, on the connection's
\* view `pending` of the table.  The upsert of turn `fault` is rejected; its
\* except block calls conn.rollback(), which returns the view to the
\* committed table.
RECURSIVE MitreTechniques(_, _, _, _, _)
MitreTechniques(techniques, k, fault, pending, tech_count) ==
    IF k > Len(techniques) THEN [mappings |-> pending, tech_count |-> tech_count]
    ELSE IF techniques[k].mitre_id = NoValue
         THEN MitreTechniques(techniques, k + 1, fault, pending, tech_count)
    ELSE IF fault = k
         THEN MitreTechniques(techniques, k + 1, fault, mitre_attack_mappings, tech_count)
    ELSE MitreTechniques(techniques, k + 1, fault,
                         UpsertTechnique(pending, techniques[k]), tech_count + 1)

\* Lines 149-179: the relationships of one group from its j-th technique, on
\* the connection's view st of the tables.
RECURSIVE MitreRelationships(_, _, _, _, _)
MitreRelationships(techniques_used, j, adv_id, mappings, st) ==
    IF j > Len(techniques_used) THEN st
    ELSE LET tid == techniques_used[j]
             linked == \E m \in mappings : m.tid = tid
             exists == \E e \in st.events : e.adversary_id = adv_id /\ e.mitre_tid = tid
             row == [event_id |-> st.serial.events, adversary_id |-> adv_id,
                     infrastructure_id |-> NULL, mitre_tid |-> tid,
                     confidence_score |-> 100, description |-> "Knowledge Base"]
         IN  IF linked /\ ~exists
             THEN MitreRelationships(techniques_used, j + 1, adv_id, mappings,
                     [st EXCEPT !.events = @ \cup {row},
                                !.serial.events = @ + 1,
                                !.rel_count = @ + 1])
             ELSE MitreRelationships(techniques_used, j + 1, adv_id, mappings, st)

\* Lines 103-179: the group loop from its k-th group.  INSERT ... ON CONFLICT
\* DO NOTHING RETURNING adversary_id gives no row only on a conflict; then
\* the SELECT by name finds the row that conflicted.
RECURSIVE MitreGroups(_, _, _, _)
MitreGroups(groups, k, mappings, st) ==
    IF k > Len(groups) THEN st
    ELSE LET g == groups[k]
             conflict == AdversaryNameUnique /\ \E a \in st.adversaries : a.name = g.name
             adv_id == IF conflict
                       THEN (CHOOSE a \in st.adversaries : a.name = g.name).adversary_id
                       ELSE st.serial.adversaries
             st1 == IF conflict THEN st
                    ELSE [st EXCEPT !.adversaries = @ \cup
                                        {[adversary_id |-> adv_id, name |-> g.name]},
                                    !.serial.adversaries = @ + 1,
                                    !.inserted = @ + 1]
             st2 == [st1 EXCEPT !.group_count = @ + 1]
         IN  MitreGroups(groups, k + 1, mappings,
                         MitreRelationships(g.techniques_used, 1, adv_id, mappings, st2))

\* ingest_mitre_data(), lines 46-186; the single conn.commit() at line 181
\* makes the connection's view the committed tables.
ingest_mitre_data(kb, fault) ==
    /\ result = NoCall
    /\ otx.pc \in {"idle", "done"}
    /\ runs < MaxRuns
    /\ runs' = runs + 1
    /\ fault # 0 => /\ faults < MaxFaults
                    /\ fault \in DOMAIN kb.techniques
                    /\ kb.techniques[fault].mitre_id # NoValue
    /\ faults' = IF fault = 0 THEN faults ELSE faults + 1
    /\ otx' = IdleOtx
    /\ LET tech == MitreTechniques(kb.techniques, 1, fault, mitre_attack_mappings, 0)
           names == {kb.groups[k].name : k \in DOMAIN kb.groups}
           st == MitreGroups(kb.groups, 1, tech.mappings,
                     [adversaries |-> adversaries, events |-> events, serial |-> serial,
                      group_count |-> 0, rel_count |-> 0, inserted |-> 0])
       IN  /\ mitre_attack_mappings' = tech.mappings
           /\ adversaries' = st.adversaries
           /\ events' = st.events
           /\ serial' = st.serial
           /\ last' = [op |-> "ingest_mitre_data",
                       fault |-> IF fault = 0 THEN "none" ELSE "insert",
                       names |-> names,
                       existing |-> \A n \in names : \E a \in adversaries : a.name = n,
                       inserted |-> st.inserted,
                       input |-> kb.techniques,
                       written |-> tech.mappings \ mitre_attack_mappings,
                       count |-> tech.tech_count, at |-> fault]
    /\ UNCHANGED <<infrastructure, conn, result, call, runners>>

\* ------------------------------------------- misp_ingest.ingest_misp_events
\* Event lists misp.search() may return.  Orgc is NoValue for an event with
\* no creator organisation, value is NoValue for an attribute without one.
MispFeeds ==
    {<< [Orgc |-> "APT-X", info |-> "campaign",
         Attribute |-> << [type |-> "ip-src", value |-> "1.2.3.4", comment |-> ""],
                          [type |-> "sha256", value |-> "9.9.9.9", comment |-> "payload"] >>],
        [Orgc |-> NoValue, info |-> "phish",
         Attribute |-> << [type |-> "domain", value |-> NoValue, comment |-> "c2"],
                          [type |-> "ip-dst", value |-> "1.2.3.4", comment |-> "c2"] >> ] >>}

\* Line 93: e_info.get('Orgc', {}).get('name', 'MISP Org')
MispOrg(event) == IF event.Orgc = NoValue THEN "MISP Org" ELSE event.Orgc

\* Lines 127-132: the infrastructure type an attribute type maps to.
MispTypes == {"ip-src", "ip-dst", "domain", "url"}
MispType(atype) == IF atype \in {"ip-src", "ip-dst"} THEN "IPv4" ELSE atype

\* Lines 115-132: the items one event appends to infra_buffer.  Only the
\* type is tested; the value is appended as it is.
MispEventInfra(event) ==
    LET Supported(attr) == attr.type \in MispTypes
        kept == SelectSeq(event.Attribute, Supported)
    IN  [k \in 1..Len(kept) |->
            [type |-> MispType(kept[k].type),
             value |-> kept[k].value,
             description |-> IF kept[k].comment # "" THEN kept[k].comment
                             ELSE event.info]]

MispInfraBuffer(events_result) ==
    Concat([k \in 1..Len(events_result) |-> MispEventInfra(events_result[k])])

\* Lines 98-111, for the events from the k-th on: SELECT the name when it is
\* not in adv_cache, INSERT it when no row came back, commit.  There is no
\* handler: the statement failing at event adv_fault raises out of the
\* function, and what was committed for the earlier events stays.
RECURSIVE MispResolve(_, _, _, _, _, _)
MispResolve(events_result, k, advs, next_id, adv_cache, adv_fault) ==
    IF k > Len(events_result)
    THEN [adversaries |-> advs, next_id |-> next_id, raised |-> FALSE]
    ELSE LET adv_name == MispOrg(events_result[k])
             known == {a \in advs : a.name = adv_name}
         IN  IF adv_name \in adv_cache
             THEN MispResolve(events_result, k + 1, advs, next_id, adv_cache, adv_fault)
             ELSE IF k = adv_fault
             THEN [adversaries |-> advs, next_id |-> next_id, raised |-> TRUE]
             ELSE IF known # {}
             THEN MispResolve(events_result, k + 1, advs, next_id,
                              adv_cache \cup {adv_name}, adv_fault)
             ELSE MispResolve(events_result, k + 1,
                              advs \cup {[adversary_id |-> next_id, name |-> adv_name]},
                              next_id + 1, adv_cache \cup {adv_name}, adv_fault)

\* What the store may do with the bulk INSERT of lines 158-163: "null" is
\* the rejection of a row whose value is NULL, which a NOT NULL column
\* gives; the schema is not part of the source, so both outcomes are taken.
MispFaults == {"none", "insert", "refetch", "null"}

\* ingest_misp_events(conn), lines 81-187, for a search that returned events.
\* The function writes adversaries and infrastructure and no events.
ingest_misp_events(events_result, adv_fault, fault) ==
    /\ result = NoCall
    /\ otx.pc \in {"idle", "done"}
    /\ runs < MaxRuns
    /\ runs' = runs + 1
    /\ otx' = IdleOtx
    /\ adv_fault \in 0..Len(events_result)
    /\ adv_fault # 0 =>
          /\ fault = "none"
          /\ \A j \in 1..(adv_fault - 1) :
                MispOrg(events_result[j]) # MispOrg(events_result[adv_fault])
    /\ LET n == IF adv_fault # 0 \/ fault \in {"insert", "refetch"} THEN 1 ELSE 0
       IN  /\ faults + n <= MaxFaults
           /\ faults' = faults + n
    /\ LET res == MispResolve(events_result, 1, adversaries, serial.adversaries,
                              {}, adv_fault)
           infra_buffer == MispInfraBuffer(events_result)
           unique_items == Dedupe(infra_buffer)
           has_null == \E k \in DOMAIN unique_items : unique_items[k].value = NoValue
           reached == ~res.raised /\ infra_buffer # <<>>
           rejected == fault \in {"insert", "null"}
           infra1 == IF reached /\ ~rejected
                     THEN infrastructure \cup
                          InsertedInfrastructure(unique_items, serial.infrastructure)
                     ELSE infrastructure
       IN  /\ fault # "none" => reached
           /\ fault = "null" => has_null
           /\ adversaries' = res.adversaries
           /\ infrastructure' = infra1
           /\ serial' = [serial EXCEPT
                            !.adversaries = res.next_id,
                            !.infrastructure = @ + Cardinality(infra1 \ infrastructure)]
           /\ last' = [op |-> "ingest_misp_events",
                       fault |-> IF res.raised THEN "resolve" ELSE fault,
                       names |-> {MispOrg(events_result[k]) : k \in DOMAIN events_result},
                       existing |-> res.adversaries = adversaries,
                       inserted |-> Cardinality(res.adversaries \ adversaries),
                       input |-> infra_buffer,
                       written |-> infra1 \ infrastructure,
                       count |-> Len(unique_items), at |-> adv_fault]
    /\ UNCHANGED <<mitre_attack_mappings, events, conn, result, call, runners>>

\* --------------------------------------------------- identity resolution
\* The jobs that can run at the same time, and the scripts they run.
Jobs == {1, 2}
Scripts == {"otx_ingest", "misp_ingest", "feed_ingest"}

\* The names each SELECT of a script's identity resolution asks for, in the
\* order of the statements: get_or_create_adversaries asks for all authors
\* at once, ingest_misp_events for one organisation per event not in
\* adv_cache, ingest_feodotracker for 'Feodo Tracker'.
ResolveRounds(script) ==
    CASE script = "otx_ingest" ->
            LET pulses == CHOOSE f \in OtxFeeds : TRUE
            IN  << {pulses[k].author_name : k \in DOMAIN pulses} >>
      [] script = "misp_ingest" ->
            LET events_result == CHOOSE f \in MispFeeds : TRUE
                first == {k \in DOMAIN events_result :
                             \A j \in 1..(k - 1) :
                                MispOrg(events_result[j]) # MispOrg(events_result[k])}
                order == SortedSeq(first)
            IN  [i \in 1..Len(order) |-> {MispOrg(events_result[order[i]])}]
      [] script = "feed_ingest" -> << {"Feodo Tracker"} >>

\* A job that is not running.  absent are the names its SELECTs found no
\* row for, committed the names whose INSERT it has committed.
IdleRunner ==
    [pc |-> "idle", script |-> "none", rounds |-> <<>>, k |-> 0,
     new_names |-> {}, pending |-> {}, absent |-> {}, committed |-> {}]

\* The job after the statements for one round of names: on to the next
\* SELECT, or past the resolution.
NextRound(r) ==
    [r EXCEPT !.new_names = {},
              !.k = @ + 1,
              !.pc = IF r.k + 1 > Len(r.rounds) THEN "done" ELSE "select"]

\* Mutant of CommitAdversaries: a unique constraint on name, under which the
\* second INSERT of a name does not go through.
CommitAdversaries_UniqueName(advs, pending) ==
    advs \cup {a \in pending : ~\E q \in advs : q.name = a.name}

\* The committed adversaries after a job that inserted the rows pending
\* commits: all of them, whatever rows others committed since its SELECT.
CommitAdversaries(advs, pending) == advs \cup pending

\* ---------------------------------------------------------- specification
Init ==
    /\ adversaries = {}
    /\ infrastructure = {}
    /\ mitre_attack_mappings = {}
    /\ events = {}
    /\ serial = [adversaries |-> 1, infrastructure |-> 1, events |-> 1]
    /\ conn = Connect
    /\ result = NoCall
    /\ call = NoCall
    /\ otx = IdleOtx
    /\ runs = 0
    /\ faults = 0
    /\ last = [op |-> "none", fault |-> "none", names |-> {}, existing |-> FALSE,
               inserted |-> 0, input |-> <<>>, written |-> {}, count |-> 0, at |-> 0]
    /\ runners = [p \in Jobs |-> IdleRunner]

Next ==
    \/ \E pulses \in OtxFeeds, fault \in WriteFaults : pipeline_resolve(pulses, fault)
    \/ \E fault \in WriteFaults : pipeline_infra_chunk(fault)
    \/ \E fault \in WriteFaults : pipeline_events_chunk(fault)
    \/ \E data \in FeodoFeeds, insert_fault, fetch_fault, event_fault \in BOOLEAN :
          ingest_feodotracker(data, insert_fault, fetch_fault, event_fault)
    \/ \E kb \in MitreKBs, fault \in 0..3 : ingest_mitre_data(kb, fault)
    \/ \E events_result \in MispFeeds, adv_fault \in 0..2, fault \in MispFaults :
          ingest_misp_events(events_result, adv_fault, fault)
    \/ \E value \in Values, mitre_ttps \in TtpLists, fault \in CorrelatorFaults :
          correlate_indicator(value, mitre_ttps, fault)
    \/ forget_result
    \/ close

Spec == Init /\ [][Next]_vars

\* ------------------------------------- ingestion jobs running side by side
\* Two jobs, each on its own connection, resolving adversary names while
\* the other does.  Every statement is one step; a SELECT sees the rows
\* committed so far (READ COMMITTED, the server's default, which none of the
\* scripts changes), and without a unique constraint on name no INSERT
\* waits for or conflicts with another.
resolve_start(p, script) ==
    /\ runners[p].pc \in {"idle", "done"}
    /\ runs < MaxRuns
    /\ runs' = runs + 1
    /\ runners' = [runners EXCEPT ![p] =
                      [IdleRunner EXCEPT !.pc = "select", !.script = script,
                                         !.rounds = ResolveRounds(script), !.k = 1]]
    /\ UNCHANGED <<store, conn, result, call, otx, faults, last>>

\* SELECT ... FROM adversaries WHERE name ...: otx_ingest.py line 87,
\* misp_ingest.py line 103, feed_ingest.py line 121.
resolve_select(p) ==
    LET r == runners[p]
        new_names == NewNames(adversaries, r.rounds[r.k])
    IN  /\ r.pc = "select"
        /\ runners' = [runners EXCEPT ![p] =
                          IF new_names # {}
                          THEN [r EXCEPT !.pc = "insert", !.new_names = new_names,
                                         !.absent = @ \cup new_names]
                          ELSE NextRound(r)]
        /\ UNCHANGED <<store, conn, result, call, otx, runs, faults, last>>

\* INSERT INTO adversaries (name) VALUES ...: otx_ingest.py lines 95-98,
\* misp_ingest.py line 108, feed_ingest.py line 126.  The rows are the
\* job's own until it commits; the sequence has moved on for everyone.
resolve_insert(p) ==
    LET r == runners[p]
    IN  /\ r.pc = "insert"
        /\ runners' = [runners EXCEPT ![p] =
                          [r EXCEPT !.pc = "commit",
                                    !.pending = InsertedAdversaries(ListOfSet(r.new_names),
                                                                    serial.adversaries)]]
        /\ serial' = [serial EXCEPT !.adversaries = @ + Cardinality(r.new_names)]
        /\ UNCHANGED <<adversaries, infrastructure, mitre_attack_mappings, events,
                       conn, result, call, otx, runs, faults, last>>

\* conn.commit(): otx_ingest.py line 99, misp_ingest.py line 111,
\* feed_ingest.py line 143 (after the indicator INSERT).
resolve_commit(p) ==
    LET r == runners[p]
    IN  /\ r.pc = "commit"
        /\ adversaries' = CommitAdversaries(adversaries, r.pending)
        /\ runners' = [runners EXCEPT ![p] =
                          NextRound([r EXCEPT !.pending = {},
                                              !.committed = @ \cup r.new_names])]
        /\ UNCHANGED <<infrastructure, mitre_attack_mappings, events, serial,
                       conn, result, call, otx, runs, faults, last>>

\* conn.rollback(): feed_ingest.py line 147, when the indicator INSERT that
\* shares the adversary's transaction is rejected.
resolve_rollback(p) ==
    LET r == runners[p]
    IN  /\ r.pc = "commit"
        /\ r.script = "feed_ingest"
        /\ faults < MaxFaults
        /\ faults' = faults + 1
        /\ runners' = [runners EXCEPT ![p] = [r EXCEPT !.pending = {}, !.pc = "done"]]
        /\ UNCHANGED <<store, conn, result, call, otx, runs, last>>

InitRace == Init

NextRace ==
    \/ \E p \in Jobs, script \in Scripts : resolve_start(p, script)
    \/ \E p \in Jobs : resolve_select(p)
    \/ \E p \in Jobs : resolve_insert(p)
    \/ \E p \in Jobs : resolve_commit(p)
    \/ \E p \in Jobs : resolve_rollback(p)

SpecRace == InitRace /\ [][NextRace]_vars


\* ------------------------------------------------------------- properties
\* The caller's view of a returned dict.
Returned == "status" \in DOMAIN result
MatchesOf(r) == IF "matches" \in DOMAIN r THEN r.matches ELSE <<>>
Called == "row" \in DOMAIN call

\* A call that found no indicator row and ran all its queries without fault.
NoRowCall == Called /\ call.failed = "none" /\ call.row = NULL
                    /\ "lookup" \in Range(call.queries)

\* C1: a call in which the Stage 1 lookup, the pivot or the Stage 2
\* heuristic query failed never hands its caller a verdict (a dict with a
\* status): the failure is reported as a failure.
C1_FailedQueryGivesNoVerdict ==
    (Called /\ call.failed \in {"lookup", "pivot", "heuristic"}) => ~Returned

\* C2: every confidence score is within 0.0..1.0 (0..100 hundredths): the
\* confidence_score of every event row, and the overall confidence and each
\* match score of every returned dict.
C2_ScoresWithinUnitInterval ==
    /\ \A e \in events : e.confidence_score \in 0..100
    /\ Returned =>
          /\ result.confidence \in 0..100
          /\ \A i \in DOMAIN MatchesOf(result) : MatchesOf(result)[i].score \in 0..100

\* C3: a call that found an indicator row and ran its queries without fault
\* returns an overall confidence of exactly 1.0, whatever the scores of the
\* linking events are.
C3_ExactMatchConfidenceIsOne ==
    (Called /\ call.failed = "none" /\ call.row # NULL) =>
        (Returned /\ result.confidence = 100)

C3_Witness ==
    /\ Called /\ call.failed = "none" /\ call.row # NULL
    /\ Returned /\ result.confidence = 100
    /\ \E i \in DOMAIN MatchesOf(result) : MatchesOf(result)[i].score # 100

\* No adversary has an event for any of the observed techniques.
NoCandidates == NoRowCall /\ call.mitre_ttps # <<>> /\ CandidateRows(call.mitre_ttps) = {}

\* C4 (as stated): no indicator row, a non-empty technique list and zero
\* candidates give the verdict "unknown" with confidence 0.0 and no matches.
C4_NoCandidatesIsUnknown ==
    NoCandidates =>
        (Returned /\ result.status = "unknown" /\ result.confidence = 0
                  /\ MatchesOf(result) = <<>>)

\* C4 (amended): no indicator row, a non-empty technique list and zero
\* candidates give the verdict "heuristic_match" with confidence 0.0 and an
\* empty match list.
C4_NoCandidatesIsEmptyHeuristicMatch ==
    NoCandidates =>
        (Returned /\ result.status = "heuristic_match" /\ result.confidence = 0
                  /\ "matches" \in DOMAIN result /\ result.matches = <<>>)

C4_Witness ==
    /\ NoCandidates
    /\ events # {}
    /\ result.status = "heuristic_match"

\* C5: no indicator row and an absent or empty technique list give the
\* verdict "unknown" with confidence 0.0 and no matches.
C5_NoTechniquesIsUnknown ==
    (NoRowCall /\ call.mitre_ttps = <<>>) =>
        (Returned /\ result.status = "unknown" /\ result.confidence = 0
                  /\ MatchesOf(result) = <<>>)

C5_Witness ==
    /\ NoRowCall /\ call.mitre_ttps = <<>>
    /\ events # {}
    /\ Returned /\ result.status = "unknown"

\* The events that reference the indicator row the call found, and the
\* adversary name each of them joins to.
LinkingEvents == {e \in events : e.infrastructure_id = call.row}
AdversaryName(e) == (CHOOSE a \in adversaries : a.adversary_id = e.adversary_id).name

\* C6: the match list of a "known" verdict has exactly one entry per event
\* that references the found indicator row, carrying that event's adversary
\* name and confidence_score; k events of one adversary give k entries.
C6_OneMatchPerLinkingEvent ==
    (Called /\ call.failed = "none" /\ call.row # NULL) =>
        /\ Returned /\ result.status = "known"
        /\ Len(result.matches) = Cardinality(LinkingEvents)
        /\ \A e \in LinkingEvents :
              Cardinality({i \in DOMAIN result.matches :
                              /\ result.matches[i].adversary = AdversaryName(e)
                              /\ result.matches[i].score = e.confidence_score})
              = Cardinality({f \in LinkingEvents :
                              /\ AdversaryName(f) = AdversaryName(e)
                              /\ f.confidence_score = e.confidence_score})

C6_Witness ==
    /\ Called /\ call.failed = "none" /\ call.row # NULL
    /\ Returned /\ result.status = "known"
    /\ \E i, j \in DOMAIN result.matches : i # j /\ result.matches[i] = result.matches[j]

\* The k-th chunk the pipeline cuts from a buffer, and the number of chunks.
Chunk(buffer, k) == Slice(buffer, (k - 1) * BATCH_SIZE, BATCH_SIZE)
NumChunks(buffer) == (Len(buffer) + BATCH_SIZE - 1) \div BATCH_SIZE

\* Rows written since the running OTX pipeline started.
NewInfrastructure == infrastructure \ otx.before.infrastructure
NewEvents == events \ otx.before.events

\* The event rows of the first k event chunks that the store accepted.
RECURSIVE SavedEventRows(_)
SavedEventRows(k) ==
    IF k = 0 THEN 0
    ELSE SavedEventRows(k - 1) +
         (IF otx.event_faults[k] = "none" THEN Len(Chunk(otx.event_rows, k)) ELSE 0)

\* C7: in the OTX pipeline a rejected chunk costs only that chunk.  For
\* every value, the indicator rows written so far are one per processed
\* chunk that holds the value and was not rejected; the event rows written
\* so far are those of the accepted event chunks; and both loops go on to
\* their last chunk after a rejection (no exception leaves the helper).
C7_RejectedChunkIsIsolated ==
    (otx.pc \in {"infra", "events", "done"} /\ ~otx.exception) =>
        /\ \A v \in Values :
              Cardinality({r \in NewInfrastructure : r.value = v})
              = Cardinality({k \in 1..Len(otx.infra_faults) :
                                /\ otx.infra_faults[k] # "insert"
                                /\ \E j \in DOMAIN Chunk(otx.infra_buffer, k) :
                                      Chunk(otx.infra_buffer, k)[j].value = v})
        /\ Cardinality(NewEvents) = SavedEventRows(Len(otx.event_faults))
        /\ otx.pc = "infra" => Len(otx.infra_faults) * BATCH_SIZE = otx.i
        /\ otx.pc \in {"events", "done"} =>
              Len(otx.infra_faults) = NumChunks(otx.infra_buffer)
        /\ otx.pc = "done" => Len(otx.event_faults) = NumChunks(otx.event_rows)

C7_Witness ==
    /\ otx.pc = "done" /\ ~otx.exception
    /\ Len(otx.infra_faults) = 3
    /\ otx.infra_faults[2] = "insert"
    /\ \E r \in NewInfrastructure : r.value = Chunk(otx.infra_buffer, 1)[1].value
    /\ \E r \in NewInfrastructure : r.value = Chunk(otx.infra_buffer, 3)[1].value
    /\ NewEvents # {}

\* C8: resolving names that all have a row already inserts no adversary
\* row, in OTX get_or_create_adversaries, in the Feodo lookup and in the
\* MITRE group loop alike; so no two adversary rows ever share a name.
C8_ResolvingExistingNamesInsertsNothing ==
    /\ (/\ last.op \in {"get_or_create_adversaries", "ingest_feodotracker",
                        "ingest_mitre_data"}
        /\ last.existing) => last.inserted = 0
    /\ \A a, b \in adversaries : a.name = b.name => a = b

\* Sightings of the running OTX pipeline whose author and indicator value
\* both resolved to an identity.
ResolvedSightings ==
    {<<k, j>> \in (DOMAIN otx.pulse_map) \X (1..Len(otx.infra_buffer)) :
        /\ j \in DOMAIN otx.pulse_map[k].infra
        /\ otx.pulse_map[k].author \in DOMAIN otx.adv_id_map
        /\ otx.pulse_map[k].infra[j].value \in DOMAIN otx.infra_id_map}

\* C9: every event row the OTX and Feodo ingestors wrote (the rows with no
\* technique) has a non-null adversary_id and a non-null infrastructure_id,
\* and OTX prepares event rows for the resolved sightings only.
C9_SightingEventsAreFullyLinked ==
    /\ \A e \in events : e.mitre_tid = NoValue =>
          e.adversary_id # NULL /\ e.infrastructure_id # NULL
    /\ (otx.pc \in {"events", "done"} /\ ~otx.exception) =>
          /\ Len(otx.event_rows) = Cardinality(ResolvedSightings)
          /\ \A i \in DOMAIN otx.event_rows :
                /\ otx.event_rows[i].adversary_id # NULL
                /\ otx.event_rows[i].infrastructure_id # NULL

C9_Witness ==
    /\ otx.pc = "done" /\ ~otx.exception
    /\ \E k \in DOMAIN otx.pulse_map : \E j \in DOMAIN otx.pulse_map[k].infra :
          otx.pulse_map[k].infra[j].value \notin DOMAIN otx.infra_id_map
    /\ NewEvents # {}
    /\ Cardinality(NewEvents) = Cardinality(ResolvedSightings)

\* C10: when the connection is lost under a query, the correlator
\* reconnects and runs that query a second time (one retry).
C10_LostQueryIsRetriedOnce ==
    (Called /\ call.lost) =>
        Cardinality({i \in DOMAIN call.queries : call.queries[i] = call.failed}) = 2

\* The shapes a finished call leaves with its caller.
Verdicts == {"known", "heuristic_match", "unknown"}
IsVerdict(r) == DOMAIN r \in {{"status", "confidence", "matches"}, {"status", "confidence"}}
                   /\ r.status \in Verdicts
IsFailure(r) == DOMAIN r \in {{"error"}, {"exception"}}

\* C11: every call ends in exactly one outcome, a verdict (known,
\* heuristic_match, unknown) or a failure; the Stage 2 query runs only in
\* calls whose lookup found no row and that were given a non-empty technique
\* list; and a call that found a row returns neither heuristic_match nor
\* unknown.
C11_OneOutcomeAndStage2OnlyAfterMiss ==
    Called =>
        /\ IsVerdict(result) # IsFailure(result)
        /\ "heuristic" \in Range(call.queries) =>
              /\ call.row = NULL
              /\ call.mitre_ttps # <<>>
              /\ call.queries = <<"lookup", "heuristic">>
        /\ (call.row # NULL /\ Returned) => result.status = "known"

C11_Witness ==
    /\ Called
    /\ call.row # NULL /\ Returned /\ result.status = "known" /\ result.matches = <<>>
    /\ call.mitre_ttps # <<>>
    /\ events # {}

\* The events the Stage 2 join gives for one adversary name.
JoinedEvents(name, mitre_ttps) ==
    {e \in events : /\ e.mitre_tid \in Range(mitre_ttps)
                    /\ \E a \in adversaries : a.adversary_id = e.adversary_id /\ a.name = name}

\* C12: each candidate's score is its match count divided by the number of
\* observed technique identifiers supplied, rounded to the nearest hundredth;
\* 2 of 4 gives 0.50 and 2 of 3 gives 0.67.
C12_ScoreIsRoundedRatio ==
    (Returned /\ result.status = "heuristic_match") =>
        \A i \in DOMAIN result.matches :
            LET m == result.matches[i]
                total == Len(call.mitre_ttps)
                diff == 100 * m.matched_ttps - m.score * total
            IN  /\ m.matched_ttps = Cardinality(JoinedEvents(m.adversary, call.mitre_ttps))
                /\ 2 * diff <= total /\ -2 * diff <= total
                /\ (m.matched_ttps = 2 /\ total = 4) => m.score = 50
                /\ (m.matched_ttps = 2 /\ total = 3) => m.score = 67

C12_Witness ==
    /\ Returned /\ result.status = "heuristic_match"
    /\ Len(call.mitre_ttps) = 4
    /\ \E i \in DOMAIN result.matches :
          result.matches[i].matched_ttps = 2 /\ result.matches[i].score = 50

\* C13: the match list of a heuristic_match result is ordered by score,
\* highest first, and the overall confidence is the score of its first
\* entry, the highest score in the list.
C13_RankedByScore ==
    (Returned /\ result.status = "heuristic_match" /\ result.matches # <<>>) =>
        /\ \A i, j \in DOMAIN result.matches :
              i < j => result.matches[i].score >= result.matches[j].score
        /\ result.confidence = result.matches[1].score
        /\ \A i \in DOMAIN result.matches : result.matches[i].score <= result.confidence

C13_Witness ==
    /\ Returned /\ result.status = "heuristic_match"
    /\ Len(result.matches) >= 2
    /\ result.matches[1].score > result.matches[2].score
    /\ result.confidence = result.matches[1].score

\* The last item of a batch that carries value v.
LastItemWith(items, v) ==
    items[CHOOSE i \in DOMAIN items :
              /\ items[i].value = v
              /\ \A j \in DOMAIN items : items[j].value = v => j <= i]

\* C14: a batch of indicator candidates is written as exactly one row per
\* distinct value, and the row of each value is the last candidate of the
\* batch with that value (its type and description).
C14_DedupeKeepsLastPerValue ==
    (/\ last.op \in {"bulk_insert_infrastructure", "ingest_feodotracker"}
     /\ last.fault # "insert") =>
        LET items == last.input
            vals == {items[i].value : i \in DOMAIN items}
        IN  /\ Cardinality(last.written) = Cardinality(vals)
            /\ \A v \in vals : \E r \in last.written :
                  /\ r.value = v
                  /\ r.type = LastItemWith(items, v).type
                  /\ r.description = LastItemWith(items, v).description

C14_Witness ==
    /\ last.op \in {"bulk_insert_infrastructure", "ingest_feodotracker"}
    /\ last.fault # "insert"
    /\ Len(last.input) = 3
    /\ last.input[1].value = last.input[3].value
    /\ last.input[1].description # last.input[3].description
    /\ last.input[2].value # last.input[1].value
    /\ Cardinality(last.written) = 2

\* C15: when a store operation fails inside get_or_create_adversaries, the
\* failed write leaves no row, no exception reaches the pipeline, and the
\* mapping returned holds exactly the names that have a row, each with the
\* identity of a row of that name.
C15_ResolverFailureIsContained ==
    (last.op = "get_or_create_adversaries" /\ last.fault # "none") =>
        /\ ~otx.exception
        /\ last.fault = "insert" => last.written = {}
        /\ DOMAIN otx.adv_id_map = {n \in last.names : \E a \in adversaries : a.name = n}
        /\ \A n \in DOMAIN otx.adv_id_map :
              \E a \in adversaries : a.name = n /\ a.adversary_id = otx.adv_id_map[n]

\* C16: a correlate_indicator call leaves every table as it found it, on the
\* paths that return a verdict and on the error paths alike.
C16_CorrelatorIsReadOnly ==
    [][(result = NoCall /\ result' # NoCall) => store' = store]_vars

C16_Witness ==
    /\ Called
    /\ call.rolled_back
    /\ events # {} /\ infrastructure # {}

\* The last technique of a knowledge base that carries the id tid.
LastTechnique(techniques, tid) ==
    techniques[CHOOSE k \in DOMAIN techniques :
                  /\ techniques[k].mitre_id = tid
                  /\ \A j \in DOMAIN techniques : techniques[j].mitre_id = tid => j <= k]

\* C17: the technique table never holds two rows with one tid, and after a
\* MITRE run whose upserts all succeeded the row of every ingested tid
\* carries the name and description the run gave it.
C17_TechniqueUpsertKeyedByTid ==
    /\ \A m, n \in mitre_attack_mappings : m.tid = n.tid => m = n
    /\ (last.op = "ingest_mitre_data" /\ last.at = 0) =>
          \A k \in DOMAIN last.input :
              last.input[k].mitre_id # NoValue =>
                  \E m \in mitre_attack_mappings :
                      /\ m.tid = last.input[k].mitre_id
                      /\ m.technique_name = LastTechnique(last.input, m.tid).name
                      /\ m.description = LastTechnique(last.input, m.tid).description

C17_Witness ==
    /\ last.op = "ingest_mitre_data" /\ last.at = 0
    /\ Cardinality(mitre_attack_mappings) = 2
    /\ \E m \in last.written :
          m.tid = "T1003" /\ m.technique_name = "Credential Dumping" /\ m.description = "v2"
    /\ \E m \in mitre_attack_mappings : m.tid = "T1059"

\* The confidence each ingestion source gives the events it writes.
SourceScore(op) ==
    CASE op = "ingest_mitre_data" -> 100
      [] op = "ingest_feodotracker" -> 95
      [] op = "bulk_save_events" -> 80
      [] OTHER -> -1

\* C18: every event a MITRE run writes has confidence_score 1.0, every event
\* a Feodo run writes has 0.95, every event the OTX pipeline writes has 0.8,
\* and no other step writes events.
C18_SourceFixesConfidence ==
    [][\A e \in events' \ events : e.confidence_score = SourceScore(last'.op)]_vars

C18_Witness ==
    /\ \E e \in events : e.confidence_score = 95
    /\ \E e \in events : e.confidence_score = 80
    /\ last.op \in {"bulk_save_events", "ingest_feodotracker"}
    /\ last.count > 0

\* C19: in a heuristic_match result each candidate's matched_ttps is the
\* number of distinct observed technique identifiers for which an adversary
\* of that name has an event, and so never exceeds the number of observed
\* identifiers.
C19_MatchedCountsDistinctTechniques ==
    (Returned /\ result.status = "heuristic_match") =>
        \A i \in DOMAIN result.matches :
            LET m == result.matches[i]
            IN  /\ m.matched_ttps =
                      Cardinality({t \in Range(call.mitre_ttps) :
                                      JoinedEvents(m.adversary, <<t>>) # {}})
                /\ m.matched_ttps <= Len(call.mitre_ttps)

\* The row the k-th technique of the last MITRE run upserts is in the table.
Persisted(k) ==
    \E m \in mitre_attack_mappings :
        /\ m.tid = last.input[k].mitre_id
        /\ m.technique_name = LastTechnique(last.input, m.tid).name
        /\ m.description = LastTechnique(last.input, m.tid).description

\* The techniques of the last MITRE run whose upsert succeeded.
Upserted == {k \in DOMAIN last.input : last.input[k].mitre_id # NoValue /\ k # last.at}

\* C20: in a MITRE run in which one technique's upsert fails, every
\* technique upserted before it is in the table when the run has committed,
\* and the logged count of upserted techniques is the number of techniques
\* the run persisted.
C20_TechniqueFailureIsContained ==
    (last.op = "ingest_mitre_data" /\ last.at # 0) =>
        /\ \A k \in Upserted : k < last.at => Persisted(k)
        /\ last.count = Cardinality({k \in Upserted : Persisted(k)})

\* C21: whenever bulk_insert_infrastructure reports a failure for a chunk
\* (it logs the error and returns an empty mapping), none of that chunk's
\* rows are in the store, the failure of the identity re-fetch included.
C21_FailedChunkLeavesNoRows ==
    (last.op = "bulk_insert_infrastructure" /\ last.fault # "none") =>
        last.written = {}

\* The operations that read raw feed records into an indicator buffer.
FeedReaders == {"bulk_insert_infrastructure", "ingest_feodotracker", "ingest_misp_events"}

\* C22: a raw feed record with an unsupported type or a missing value is
\* dropped by the path that reads it: it is never in the indicator buffer,
\* never inserted, and never makes the chunk or the run fail.
C22_UnusableRecordsAreDropped ==
    last.op \in FeedReaders =>
        /\ \A k \in DOMAIN last.input : last.input[k].value # NoValue
        /\ \A r \in last.written : r.value # NoValue
        /\ last.fault # "null"

\* The statements of correlate_indicator that run a query.
Queries == {"lookup", "pivot", "heuristic"}

\* C23: a correlate_indicator call in which the Stage 1 or the Stage 2 query
\* failed has rolled the transaction back when it returns, and the next call
\* on that connection, with nothing failing anew, executes its lookup
\* normally.
C23_FailedQueryIsRolledBack ==
    [][(result = NoCall /\ result' # NoCall) =>
          /\ conn'.txn = "ok"
          /\ (call'.failed \in Queries /\ ~call'.lost) => call'.rolled_back
          /\ (conn.recovered /\ ~conn.closed /\ faults' = faults) =>
                /\ call'.failed = "none"
                /\ call'.queries # <<>>
                /\ call'.queries[1] = "lookup"
                /\ IsVerdict(result')]_vars

C23_Witness ==
    /\ Called
    /\ conn.recovered
    /\ ~call.reconnected
    /\ call.failed = "none"
    /\ call.queries # <<>>
    /\ result.status = "known"

\* The committed adversary rows with the name n.
RowsNamed(n) == {a \in adversaries : a.name = n}

\* The names both running jobs found absent and inserted, committed by both.
InsertedByBoth == runners[1].committed \cap runners[2].committed

\* C24: two ingestion runs at the same time can race on identity
\* resolution: when both found a name absent and both committed their
\* INSERT of it, the store holds two rows with that name.
C24_RacingResolversDuplicateName ==
    \A n \in InsertedByBoth : Cardinality(RowsNamed(n)) >= 2

C24_Witness ==
    \E n \in InsertedByBoth :
        /\ n \in runners[1].absent \cap runners[2].absent
        /\ Cardinality(RowsNamed(n)) = 2
        /\ runners[1].script # runners[2].script

\* The indicator writes of the OTX and the Feodo path.
IndicatorWriters == {"bulk_insert_infrastructure", "ingest_feodotracker"}

\* The indicator rows that were in the store before the last operation.
EarlierInfrastructure == infrastructure \ last.written

\* C25: an indicator write of the OTX or the Feodo path that the store does
\* not reject inserts a new row for every value of its input, one per
\* distinct value, whether or not a row with that value exists: running the
\* same feed again duplicates every indicator.
C25_RerunInsertsEveryValueAgain ==
    (last.op \in IndicatorWriters /\ last.fault # "insert") =>
        /\ \A k \in DOMAIN last.input :
              \E r \in last.written : r.value = last.input[k].value
        /\ Cardinality(last.written) =
              Cardinality({last.input[k].value : k \in DOMAIN last.input})

C25_Witness ==
    /\ last.op = "ingest_feodotracker"
    /\ last.written # {}
    /\ \A r \in last.written :
          \E q \in EarlierInfrastructure :
              /\ q.value = r.value
              /\ q.description = r.description
              /\ q.infrastructure_id < r.infrastructure_id

\* The 'adversary uses technique' events the MITRE runs wrote.
UsesTechniqueEvents == {e \in events : e.mitre_tid # NoValue /\ e.infrastructure_id = NULL}

\* C26: after any number of MITRE runs one after the other, the store holds
\* at most one 'adversary uses technique' event per adversary name and
\* technique id.
C26_OneUsesEventPerNameAndTechnique ==
    \A e1, e2 \in UsesTechniqueEvents :
        (AdversaryName(e1) = AdversaryName(e2) /\ e1.mitre_tid = e2.mitre_tid) => e1 = e2

SameValueRows == {r \in infrastructure : r.value = call.value}
SameValueEvents ==
    {e \in events : \E r \in SameValueRows : e.infrastructure_id = r.infrastructure_id}

\* C28: when the store holds several indicator rows with the queried value,
\* correlate_indicator pivots through exactly one of them: every match stems
\* from an event that references that row, and the events of the other rows
\* with the value are not returned.
C28_PivotsThroughOneRow ==
    (Called /\ call.failed = "none" /\ call.row # NULL
        /\ Cardinality(SameValueRows) >= 2) =>
        /\ Cardinality({r \in SameValueRows : r.infrastructure_id = call.row}) = 1
        /\ LinkingEvents \subseteq SameValueEvents
        /\ Len(result.matches) = Cardinality(LinkingEvents)
        /\ \A i \in DOMAIN result.matches :
              \E e \in LinkingEvents :
                  /\ result.matches[i].adversary = AdversaryName(e)
                  /\ result.matches[i].score = e.confidence_score

C28_Witness ==
    /\ Called /\ call.failed = "none" /\ call.row # NULL
    /\ Cardinality(SameValueRows) >= 2
    /\ LinkingEvents # {}
    /\ SameValueEvents \ LinkingEvents # {}
    /\ Len(result.matches) < Cardinality(SameValueEvents)

\* C29: a lookup that finds an indicator row which no event references (a
\* row committed by the MISP path, which writes no events, or one whose
\* event chunk was rejected) gives the verdict KNOWN with confidence 1.0 and
\* an empty match list.
C29_RowWithoutEventsIsKnownAndEmpty ==
    (Called /\ call.failed = "none" /\ call.row # NULL /\ LinkingEvents = {}) =>
        /\ IsVerdict(result)
        /\ result.status = "known"
        /\ result.confidence = 100
        /\ result.matches = <<>>

\* The found row was written by ingest_misp_events as the last operation.
C29_Witness ==
    /\ Called /\ call.failed = "none" /\ LinkingEvents = {}
    /\ last.op = "ingest_misp_events"
    /\ \E r \in last.written : r.infrastructure_id = call.row
    /\ result.status = "known"

\* The technique ids that have a row.
Tids == {m.tid : m \in mitre_attack_mappings}

\* C30: no ingestion step and no correlator call updates or deletes a
\* committed adversary, indicator or event row: those tables only grow.
\* The only committed row changed in place is a technique row, by the
\* upsert of a MITRE run, and no technique id loses its row.
C30_TablesOnlyGrow ==
    [][/\ adversaries \subseteq adversaries'
       /\ infrastructure \subseteq infrastructure'
       /\ events \subseteq events'
       /\ Tids \subseteq Tids'
       /\ ~(mitre_attack_mappings \subseteq mitre_attack_mappings') =>
             last'.op = "ingest_mitre_data"]_vars

\* A MITRE run has changed the row of T1003 in place, and the adversaries
\* and events an earlier run wrote are all there next to its own.
C30_Witness ==
    /\ last.op = "ingest_mitre_data"
    /\ \E m \in last.written : m.tid = "T1003" /\ m.description = "v2"
    /\ \E e \in events :
          /\ e.mitre_tid = "T1059"
          /\ \E f \in events : f.event_id > e.event_id /\ f.mitre_tid = "T1003"
    /\ Cardinality(adversaries) >= 3

=============================================================================
